---- MODULE Spec2Model ----
(***************************************************************************)
(* Model of the atomig crate (src/lib.rs): the Atom conversion trait, the  *)
(* AtomicImpl / AtomicLogicImpl native capabilities as implemented for the *)
(* standard library atomics, and the generic wrapper Atomic<T>.            *)
(*                                                                         *)
(* A native integer is modelled as its bit pattern: the set of positions   *)
(* of its one bits (a subset of 0..w-1 for a w-bit type), so that every    *)
(* width up to 64 bits is represented exactly.  A native bool is a         *)
(* BOOLEAN, a native pointer is an address.                                *)
(***************************************************************************)
EXTENDS Integers, FiniteSets, Sequences, TLC

\* ---------------------------------------------------------------- bounds
\* unsigned operands handed to the wrapper are the literals 0..MaxArg
MaxArg == 5
\* signed operands handed to the wrapper are the literals -MaxSigned..MaxSigned
MaxSigned == 2
\* pointer operands are the addresses 0..MaxPtr (0 is the null pointer)
MaxPtr == 2
\* the number of threads that share one wrapper
NThreads == 2
\* the unsigned operands of the threads are the literals 0..MaxRaceArg
MaxRaceArg == 3

\* number of low bits a literal operand may occupy
LitBits == 4

\* ------------------------------------------------------- std::sync::atomic
Ordering == {"Relaxed", "Release", "Acquire", "AcqRel", "SeqCst"}

\* the orderings the callers of the value-level specification pass
CallOrders == {"SeqCst"}

\* ------------------------------------------------------------ Atom impls
\* the types implementing Atom: the ten standard ones of the crate and Tag,
\* a user enum { A, B, C } carried by an AtomicU8 with a non-identity pack
StdTypes == {"bool", "u8", "i8", "u16", "i16", "u32", "i32", "u64", "i64", "ptr"}
Types == StdTypes \cup {"Tag"}

\* type Impl of each Atom implementation
Impl(ty) ==
    CASE ty = "bool" -> "AtomicBool"
      [] ty = "u8"   -> "AtomicU8"
      [] ty = "i8"   -> "AtomicI8"
      [] ty = "u16"  -> "AtomicU16"
      [] ty = "i16"  -> "AtomicI16"
      [] ty = "u32"  -> "AtomicU32"
      [] ty = "i32"  -> "AtomicI32"
      [] ty = "u64"  -> "AtomicU64"
      [] ty = "i64"  -> "AtomicI64"
      [] ty = "ptr"  -> "AtomicPtr"
      [] ty = "Tag"  -> "AtomicU8"

\* the implementations of AtomicLogicImpl with the one for AtomicBool left out
AtomicLogicImpl_without_bool ==
    {"AtomicU8", "AtomicI8", "AtomicU16", "AtomicI16",
     "AtomicU32", "AtomicI32", "AtomicU64", "AtomicI64"}

\* the implementations of AtomicLogicImpl (impl_std_atomics! only)
AtomicLogicImpl == {"AtomicBool", "AtomicU8", "AtomicI8", "AtomicU16", "AtomicI16",
                    "AtomicU32", "AtomicI32", "AtomicU64", "AtomicI64"}

\* width in bits of the Inner type of an integer implementation
Width(impl) ==
    CASE impl \in {"AtomicU8", "AtomicI8"}   -> 8
      [] impl \in {"AtomicU16", "AtomicI16"} -> 16
      [] impl \in {"AtomicU32", "AtomicI32"} -> 32
      [] impl \in {"AtomicU64", "AtomicI64"} -> 64

Signed(impl) == impl \in {"AtomicI8", "AtomicI16", "AtomicI32", "AtomicI64"}

\* bit pattern of a literal 0 <= n < 2^LitBits
Bits(n) == {i \in 0..(LitBits - 1) : (n \div (2 ^ i)) % 2 = 1}

AllBits(impl) == 0..(Width(impl) - 1)

\* two's complement bit pattern of a literal -2^LitBits <= n < 2^LitBits
IntBits(n, impl) == IF n >= 0 THEN Bits(n) ELSE AllBits(impl) \ Bits(-n - 1)

\* the Domain Values a caller hands to the wrapper
Dom(ty) ==
    CASE ty = "bool" -> BOOLEAN
      [] ty = "ptr"  -> 0..MaxPtr
      [] ty = "Tag"  -> {"A", "B", "C"}
      [] OTHER       -> IF Signed(Impl(ty))
                        THEN {IntBits(n, Impl(ty)) : n \in (-MaxSigned)..MaxSigned}
                        ELSE {Bits(n) : n \in 0..MaxArg}

\* Atom::pack: the identity for the standard types (id_pack_unpack!), the
\* discriminant 1, 2, 4 for Tag
pack(ty, v) ==
    IF ty = "Tag"
    THEN CASE v = "A" -> Bits(1) [] v = "B" -> Bits(2) [] v = "C" -> Bits(4)
    ELSE v

\* result of unpacking a bit pattern no Tag value packs to
Invalid == "invalid"

\* the Domain Values whose encoding is the bit pattern src
Decoded(ty, src) ==
    IF ty = "Tag" THEN {v \in Dom(ty) : pack(ty, v) = src} ELSE {src}

\* Atom::unpack, as the set of its possible results: the identity for the
\* standard types; for Tag the inverse of pack on pack's image, and outside
\* of it whatever the implementor's decode yields
unpack(ty, src) ==
    IF ty = "Tag"
    THEN IF Decoded(ty, src) # {} THEN Decoded(ty, src) ELSE Dom(ty) \cup {Invalid}
    ELSE {src}

\* ------------------------------------------------------------- results
Val(v) == [tag |-> "Val", v |-> v]
Ok(v) == [tag |-> "Ok", v |-> v]
Err(v) == [tag |-> "Err", v |-> v]
Unit == [tag |-> "Unit"]
Panic == [tag |-> "Panic"]

\* ---------------------------------------------- the std atomics' bit ops
BitAnd(impl, a, b) == IF impl = "AtomicBool" THEN a /\ b ELSE a \cap b
BitOr(impl, a, b) == IF impl = "AtomicBool" THEN a \/ b ELSE a \cup b
BitXor(impl, a, b) ==
    IF impl = "AtomicBool" THEN a # b ELSE (a \ b) \cup (b \ a)
\* a complement that reaches one bit beyond the width of the type
BitNot_wide(impl, a) == IF impl = "AtomicBool" THEN ~a ELSE (0..Width(impl)) \ a

BitNot(impl, a) == IF impl = "AtomicBool" THEN ~a ELSE AllBits(impl) \ a

\* --------------------------------------------------------- AtomicImpl
\* Each operation of an implementation is applied to the cell's value c and
\* yields the set of its possible outcomes: the cell's value afterwards, the
\* value returned, and the orderings the std atomic was given.
\* the orderings the std atomics reject with a panic: a load cannot release,
\* a store cannot acquire, the failure ordering of a compare-exchange cannot
\* release
LoadRejects(order) == order \in {"Release", "AcqRel"}
StoreRejects(order) == order \in {"Acquire", "AcqRel"}
FailureRejects(failure) == failure \in {"Release", "AcqRel"}

\* a failure ordering stronger than the success ordering: a panic in the
\* standard library the crate was written for, accepted by later ones
FailureStronger(success, failure) ==
    \/ failure = "SeqCst" /\ success # "SeqCst"
    \/ failure = "Acquire" /\ success \in {"Relaxed", "Release"}

\* the outcome of a panicking call: the cell is not touched
Panics(c, ord) == {[cell |-> c, ret |-> Panic, ord |-> ord]}

Impl_new(impl, v) == v

\* into_inner yielding the zero value of the inner type, not the stored one
Impl_into_inner_zeroed(impl, c) ==
    IF impl = "AtomicBool" THEN FALSE ELSE IF impl = "AtomicPtr" THEN 0 ELSE {}

Impl_into_inner(impl, c) == c

Impl_load(impl, c, order) ==
    IF LoadRejects(order) THEN Panics(c, <<order>>)
    ELSE {[cell |-> c, ret |-> Val(c), ord |-> <<order>>]}

Impl_store(impl, c, v, order) ==
    IF StoreRejects(order) THEN Panics(c, <<order>>)
    ELSE {[cell |-> v, ret |-> Unit, ord |-> <<order>>]}

Impl_swap(impl, c, v, order) ==
    {[cell |-> v, ret |-> Val(c), ord |-> <<order>>]}

Impl_compare_and_swap(impl, c, current, new, order) ==
    {[cell |-> IF c = current THEN new ELSE c, ret |-> Val(c), ord |-> <<order>>]}

\* a strong compare-exchange that can fail like the weak one
Impl_compare_exchange_spurious(impl, c, current, new, success, failure) ==
    {[cell |-> c, ret |-> Err(c), ord |-> <<success, failure>>]}
    \cup (IF c = current
          THEN {[cell |-> new, ret |-> Ok(c), ord |-> <<success, failure>>]}
          ELSE {})

Impl_compare_exchange(impl, c, current, new, success, failure) ==
    IF FailureRejects(failure) THEN Panics(c, <<success, failure>>)
    ELSE (IF FailureStronger(success, failure) THEN Panics(c, <<success, failure>>) ELSE {})
         \cup {IF c = current
                THEN [cell |-> new, ret |-> Ok(c), ord |-> <<success, failure>>]
                ELSE [cell |-> c, ret |-> Err(c), ord |-> <<success, failure>>]}

\* a weak compare-exchange that can store without the comparison holding
Impl_compare_exchange_weak_eager(impl, c, current, new, success, failure) ==
    {[cell |-> c, ret |-> Err(c), ord |-> <<success, failure>>],
     [cell |-> new, ret |-> Ok(c), ord |-> <<success, failure>>]}

\* the weak form may fail although the comparison holds
Impl_compare_exchange_weak(impl, c, current, new, success, failure) ==
    IF FailureRejects(failure) THEN Panics(c, <<success, failure>>)
    ELSE (IF FailureStronger(success, failure) THEN Panics(c, <<success, failure>>) ELSE {})
         \cup {[cell |-> c, ret |-> Err(c), ord |-> <<success, failure>>]}
         \cup (IF c = current
               THEN {[cell |-> new, ret |-> Ok(c), ord |-> <<success, failure>>]}
               ELSE {})

\* ------------------------------------------------------ AtomicLogicImpl
Impl_fetch_and(impl, c, val, order) ==
    {[cell |-> BitAnd(impl, c, val), ret |-> Val(c), ord |-> <<order>>]}

Impl_fetch_nand(impl, c, val, order) ==
    {[cell |-> BitNot(impl, BitAnd(impl, c, val)), ret |-> Val(c), ord |-> <<order>>]}

Impl_fetch_or(impl, c, val, order) ==
    {[cell |-> BitOr(impl, c, val), ret |-> Val(c), ord |-> <<order>>]}

Impl_fetch_xor(impl, c, val, order) ==
    {[cell |-> BitXor(impl, c, val), ret |-> Val(c), ord |-> <<order>>]}

\* ------------------------------------------------------------ Atomic<T>
\* T::unpack applied to a returned value; a panic of the native call
\* unwinds through the wrapper
Unpacked(ty, o) ==
    IF o.ret.tag = "Panic" THEN {o}
    ELSE {[cell |-> o.cell, ret |-> Val(u), ord |-> o.ord] : u \in unpack(ty, o.ret.v)}

\* .map(T::unpack).map_err(T::unpack) applied to a returned Result
MapUnpack(ty, o) ==
    IF o.ret.tag = "Panic" THEN {o}
    ELSE {[cell |-> o.cell, ret |-> [tag |-> o.ret.tag, v |-> u], ord |-> o.ord] :
            u \in unpack(ty, o.ret.v)}

new(ty, v) == Impl_new(Impl(ty), pack(ty, v))

into_inner(ty, self) == unpack(ty, Impl_into_inner(Impl(ty), self))

load(ty, self, order) ==
    UNION {Unpacked(ty, o) : o \in Impl_load(Impl(ty), self, order)}

\* store that reads the cell instead of writing it
store_dropped(ty, self, v, order) ==
    {[o EXCEPT !.ret = Unit] : o \in Impl_load(Impl(ty), self, order)}

store(ty, self, v, order) ==
    Impl_store(Impl(ty), self, pack(ty, v), order)

\* swap that returns the value it has just written
swap_returns_new(ty, self, v, order) ==
    UNION {Unpacked(ty, [o EXCEPT !.ret = Val(o.cell)]) :
        o \in Impl_swap(Impl(ty), self, pack(ty, v), order)}

swap(ty, self, v, order) ==
    UNION {Unpacked(ty, o) : o \in Impl_swap(Impl(ty), self, pack(ty, v), order)}

\* compare_and_swap with its two value arguments transposed
compare_and_swap_transposed(ty, self, current, new_, order) ==
    UNION {Unpacked(ty, o) :
        o \in Impl_compare_and_swap(Impl(ty), self, pack(ty, new_), pack(ty, current), order)}

compare_and_swap(ty, self, current, new_, order) ==
    UNION {Unpacked(ty, o) :
        o \in Impl_compare_and_swap(Impl(ty), self, pack(ty, current), pack(ty, new_), order)}

\* compare_exchange that reports a match without installing the new value
compare_exchange_not_installing(ty, self, current, new_, success, failure) ==
    {[o EXCEPT !.cell = self] :
        o \in UNION {MapUnpack(ty, n) :
            n \in Impl_compare_exchange(Impl(ty), self, pack(ty, current), pack(ty, new_),
                                        success, failure)}}

\* compare_exchange that waits until the cell holds current
compare_exchange_waiting(ty, self, current, new_, success, failure) ==
    {o \in UNION {MapUnpack(ty, n) :
            n \in Impl_compare_exchange(Impl(ty), self, pack(ty, current), pack(ty, new_),
                                        success, failure)} : o.ret.tag = "Ok"}

\* compare_exchange built on compare_and_swap, reporting every outcome as Ok
compare_exchange_via_cas(ty, self, current, new_, success, failure) ==
    {[cell |-> o.cell, ret |-> Ok(o.ret.v), ord |-> <<success, failure>>] :
        o \in compare_and_swap(ty, self, current, new_, success)}

compare_exchange(ty, self, current, new_, success, failure) ==
    UNION {MapUnpack(ty, o) :
        o \in Impl_compare_exchange(Impl(ty), self, pack(ty, current), pack(ty, new_),
                                    success, failure)}

\* compare_exchange_weak handing its two orderings over in the wrong order
compare_exchange_weak_orders_swapped(ty, self, current, new_, success, failure) ==
    UNION {MapUnpack(ty, o) :
        o \in Impl_compare_exchange_weak(Impl(ty), self, pack(ty, current), pack(ty, new_),
                                         failure, success)}

\* compare_exchange_weak reporting the expected value on failure
compare_exchange_weak_expected(ty, self, current, new_, success, failure) ==
    UNION {MapUnpack(ty, [o EXCEPT !.ret = IF o.ret.tag = "Err"
                                           THEN Err(pack(ty, current)) ELSE o.ret]) :
        o \in Impl_compare_exchange_weak(Impl(ty), self, pack(ty, current), pack(ty, new_),
                                         success, failure)}

compare_exchange_weak(ty, self, current, new_, success, failure) ==
    UNION {MapUnpack(ty, o) :
        o \in Impl_compare_exchange_weak(Impl(ty), self, pack(ty, current), pack(ty, new_),
                                         success, failure)}

fetch_and(ty, self, val, order) ==
    UNION {Unpacked(ty, o) : o \in Impl_fetch_and(Impl(ty), self, pack(ty, val), order)}

\* fetch_nand forwarding to the native fetch_and
fetch_nand_as_and(ty, self, val, order) ==
    UNION {Unpacked(ty, o) : o \in Impl_fetch_and(Impl(ty), self, pack(ty, val), order)}

fetch_nand(ty, self, val, order) ==
    UNION {Unpacked(ty, o) : o \in Impl_fetch_nand(Impl(ty), self, pack(ty, val), order)}

\* fetch_or forwarding to the native fetch_xor
fetch_or_as_xor(ty, self, val, order) ==
    UNION {Unpacked(ty, o) : o \in Impl_fetch_xor(Impl(ty), self, pack(ty, val), order)}

fetch_or(ty, self, val, order) ==
    UNION {Unpacked(ty, o) : o \in Impl_fetch_or(Impl(ty), self, pack(ty, val), order)}

\* fetch_xor forwarding to the native fetch_or
fetch_xor_as_or(ty, self, val, order) ==
    UNION {Unpacked(ty, o) : o \in Impl_fetch_or(Impl(ty), self, pack(ty, val), order)}

fetch_xor(ty, self, val, order) ==
    UNION {Unpacked(ty, o) : o \in Impl_fetch_xor(Impl(ty), self, pack(ty, val), order)}

\* ----------------------------------------------------- the method sets
\* the methods the trait AtomicImpl declares
AtomicImplMethods ==
    {"new", "get_mut", "into_inner", "load", "store", "swap", "compare_and_swap",
     "compare_exchange", "compare_exchange_weak"}

\* the methods of impl<T: Atom> Atomic<T> with into_inner left out
AtomicMethods_without_into_inner ==
    {"new", "load", "store", "swap", "compare_and_swap",
     "compare_exchange", "compare_exchange_weak"}

\* the methods of impl<T: Atom> Atomic<T>; get_mut is commented out
AtomicMethods ==
    {"new", "into_inner", "load", "store", "swap", "compare_and_swap",
     "compare_exchange", "compare_exchange_weak"}

\* ------------------------------------------- the abstract atomic cell
\* The reference the wrapper is compared with: a cell that stores a Domain
\* Value directly and compares by domain equality.  Abs(v) is a cell holding
\* v; Diverged is the cell after a bitwise operation whose result no Domain
\* Value encodes.
Abs(v) == [ok |-> TRUE, v |-> v]
Diverged == [ok |-> FALSE]
Lost == {[cell |-> Diverged, ret |-> [tag |-> "Lost"]]}

Abs_load(a) == IF a.ok THEN {[cell |-> a, ret |-> Val(a.v)]} ELSE Lost

Abs_store(a, v) == IF a.ok THEN {[cell |-> Abs(v), ret |-> Unit]} ELSE Lost

Abs_swap(a, v) == IF a.ok THEN {[cell |-> Abs(v), ret |-> Val(a.v)]} ELSE Lost

Abs_compare_and_swap(a, current, new_) ==
    IF a.ok
    THEN {[cell |-> IF a.v = current THEN Abs(new_) ELSE a, ret |-> Val(a.v)]}
    ELSE Lost

Abs_compare_exchange(a, current, new_) ==
    IF a.ok
    THEN {IF a.v = current THEN [cell |-> Abs(new_), ret |-> Ok(a.v)]
                           ELSE [cell |-> a, ret |-> Err(a.v)]}
    ELSE Lost

Abs_compare_exchange_weak(a, current, new_) ==
    IF a.ok
    THEN {[cell |-> a, ret |-> Err(a.v)]}
         \cup (IF a.v = current THEN {[cell |-> Abs(new_), ret |-> Ok(a.v)]} ELSE {})
    ELSE Lost

\* a bitwise operation on the abstract cell: the Domain Value that encodes
\* the combined bit pattern n, if there is one
Abs_fetch(ty, a, n) ==
    IF a.ok
    THEN {[cell |-> IF Decoded(ty, n) # {} THEN Abs(CHOOSE v \in Decoded(ty, n) : TRUE)
                                           ELSE Diverged,
           ret |-> Val(a.v)]}
    ELSE Lost

\* ----------------------------------------------------------------- state
VARIABLES
    ty,     \* the type parameter T of the wrapper
    cell,   \* self.0: the value of the native atomic cell
    alive,  \* FALSE once into_inner has consumed the wrapper
    last,   \* the last operation: its name, arguments, the cell before it,
            \* the orderings the native operation received, and its result
    twice,  \* the last operation repeats the one before it: same method,
            \* same arguments
    called, \* the orderings the caller gave to the last operation
    thr,    \* the threads sharing the wrapper, each with the one call it
            \* makes; empty where the calls are taken one after the other
    abs     \* the abstract cell run alongside

vars == <<ty, cell, alive, last, twice, called, thr, abs>>

Init ==
    /\ ty \in Types
    /\ \E v \in Dom(ty) :
        /\ cell = new(ty, v)
        /\ abs = Abs(v)
        /\ last = [op |-> "new", args |-> <<v>>, ord |-> <<>>, pre |-> new(ty, v),
                   apre |-> Abs(v), ret |-> Unit, aret |-> Unit]
    /\ alive = TRUE
    /\ twice = FALSE
    /\ called = <<>>
    /\ thr = <<>>

\* one operation on the live wrapper: co are the outcomes the wrapper's
\* method can produce, ao those of the abstract cell, taken with the same
\* success or failure whenever the abstract cell can produce it
Step(name, args, co, ao) ==
    /\ alive
    /\ \E o \in co, x \in ao :
        /\ x.ret.tag = o.ret.tag \/ \A y \in ao : y.ret.tag # o.ret.tag
        /\ cell' = o.cell
        /\ abs' = IF o.ret.tag = "Panic" THEN abs ELSE x.cell
        /\ last' = [op |-> name, args |-> args, ord |-> o.ord, pre |-> cell,
                    apre |-> abs, ret |-> o.ret,
                    aret |-> IF o.ret.tag = "Panic" THEN Panic ELSE x.ret]
    /\ twice' = (last.op = name /\ last.args = args)
    /\ UNCHANGED <<ty, alive, thr>>

Load(order) ==
    /\ Step("load", <<>>, load(ty, cell, order), Abs_load(abs))
    /\ called' = <<order>>

Store(v, order) ==
    /\ Step("store", <<v>>, store(ty, cell, v, order), Abs_store(abs, v))
    /\ called' = <<order>>

Swap(v, order) ==
    /\ Step("swap", <<v>>, swap(ty, cell, v, order), Abs_swap(abs, v))
    /\ called' = <<order>>

CompareAndSwap(current, new_, order) ==
    /\ Step("compare_and_swap", <<current, new_>>,
            compare_and_swap(ty, cell, current, new_, order),
            Abs_compare_and_swap(abs, current, new_))
    /\ called' = <<order>>

CompareExchange(current, new_, success, failure) ==
    /\ Step("compare_exchange", <<current, new_>>,
            compare_exchange(ty, cell, current, new_, success, failure),
            Abs_compare_exchange(abs, current, new_))
    /\ called' = <<success, failure>>

CompareExchangeWeak(current, new_, success, failure) ==
    /\ Step("compare_exchange_weak", <<current, new_>>,
            compare_exchange_weak(ty, cell, current, new_, success, failure),
            Abs_compare_exchange_weak(abs, current, new_))
    /\ called' = <<success, failure>>

\* the four bitwise methods exist only where T::Impl: AtomicLogicImpl
FetchAnd(val, order) ==
    /\ Impl(ty) \in AtomicLogicImpl
    /\ Step("fetch_and", <<val>>, fetch_and(ty, cell, val, order),
            Abs_fetch(ty, abs, BitAnd(Impl(ty), cell, pack(ty, val))))
    /\ called' = <<order>>

FetchNand(val, order) ==
    /\ Impl(ty) \in AtomicLogicImpl
    /\ Step("fetch_nand", <<val>>, fetch_nand(ty, cell, val, order),
            Abs_fetch(ty, abs, BitNot(Impl(ty), BitAnd(Impl(ty), cell, pack(ty, val)))))
    /\ called' = <<order>>

FetchOr(val, order) ==
    /\ Impl(ty) \in AtomicLogicImpl
    /\ Step("fetch_or", <<val>>, fetch_or(ty, cell, val, order),
            Abs_fetch(ty, abs, BitOr(Impl(ty), cell, pack(ty, val))))
    /\ called' = <<order>>

FetchXor(val, order) ==
    /\ Impl(ty) \in AtomicLogicImpl
    /\ Step("fetch_xor", <<val>>, fetch_xor(ty, cell, val, order),
            Abs_fetch(ty, abs, BitXor(Impl(ty), cell, pack(ty, val))))
    /\ called' = <<order>>

\* into_inner takes self by value: the wrapper is gone afterwards
IntoInner ==
    /\ alive
    /\ alive' = FALSE
    /\ \E u \in into_inner(ty, cell) :
        last' = [op |-> "into_inner", args |-> <<>>, ord |-> <<>>, pre |-> cell,
                 apre |-> abs, ret |-> Val(u),
                 aret |-> IF abs.ok THEN Val(abs.v) ELSE [tag |-> "Lost"]]
    /\ twice' = FALSE
    /\ called' = <<>>
    /\ UNCHANGED <<ty, cell, thr, abs>>

Next ==
    \/ \E o \in CallOrders : Load(o)
    \/ \E v \in Dom(ty), o \in CallOrders : Store(v, o)
    \/ \E v \in Dom(ty), o \in CallOrders : Swap(v, o)
    \/ \E c \in Dom(ty), n \in Dom(ty), o \in CallOrders : CompareAndSwap(c, n, o)
    \/ \E c \in Dom(ty), n \in Dom(ty), s \in CallOrders, f \in CallOrders :
        CompareExchange(c, n, s, f)
    \/ \E c \in Dom(ty), n \in Dom(ty), s \in CallOrders, f \in CallOrders :
        CompareExchangeWeak(c, n, s, f)
    \/ \E v \in Dom(ty), o \in CallOrders : FetchAnd(v, o)
    \/ \E v \in Dom(ty), o \in CallOrders : FetchNand(v, o)
    \/ \E v \in Dom(ty), o \in CallOrders : FetchOr(v, o)
    \/ \E v \in Dom(ty), o \in CallOrders : FetchXor(v, o)
    \/ IntoInner

\* a call of the wrapper's method of the given name; new is Init
Method(name) ==
    \/ name = "into_inner" /\ IntoInner
    \/ name = "load" /\ \E o \in CallOrders : Load(o)
    \/ name = "store" /\ \E v \in Dom(ty), o \in CallOrders : Store(v, o)
    \/ name = "swap" /\ \E v \in Dom(ty), o \in CallOrders : Swap(v, o)
    \/ name = "compare_and_swap"
        /\ \E c \in Dom(ty), n \in Dom(ty), o \in CallOrders : CompareAndSwap(c, n, o)
    \/ name = "compare_exchange"
        /\ \E c \in Dom(ty), n \in Dom(ty), s \in CallOrders, f \in CallOrders :
            CompareExchange(c, n, s, f)
    \/ name = "compare_exchange_weak"
        /\ \E c \in Dom(ty), n \in Dom(ty), s \in CallOrders, f \in CallOrders :
            CompareExchangeWeak(c, n, s, f)

\* a call of the wrapper's bitwise method of the given name
FetchMethod(name) ==
    \/ name = "fetch_and" /\ \E v \in Dom(ty), o \in CallOrders : FetchAnd(v, o)
    \/ name = "fetch_nand" /\ \E v \in Dom(ty), o \in CallOrders : FetchNand(v, o)
    \/ name = "fetch_or" /\ \E v \in Dom(ty), o \in CallOrders : FetchOr(v, o)
    \/ name = "fetch_xor" /\ \E v \in Dom(ty), o \in CallOrders : FetchXor(v, o)

Spec == Init /\ [][Next]_vars

\* ------------------------------------------- every ordering, small types
\* The same wrapper called with each of the five orderings, on the two
\* types with the fewest values.
OrdTypes == {"bool", "ptr"}

InitOrd == Init /\ ty \in OrdTypes

NextOrd ==
    \/ \E o \in Ordering : Load(o)
    \/ \E v \in Dom(ty), o \in Ordering : Store(v, o)
    \/ \E v \in Dom(ty), o \in Ordering : Swap(v, o)
    \/ \E c \in Dom(ty), n \in Dom(ty), o \in Ordering : CompareAndSwap(c, n, o)
    \/ \E c \in Dom(ty), n \in Dom(ty), s \in Ordering, f \in Ordering :
        CompareExchange(c, n, s, f)
    \/ \E c \in Dom(ty), n \in Dom(ty), s \in Ordering, f \in Ordering :
        CompareExchangeWeak(c, n, s, f)
    \/ \E v \in Dom(ty), o \in Ordering : FetchAnd(v, o)
    \/ \E v \in Dom(ty), o \in Ordering : FetchNand(v, o)
    \/ \E v \in Dom(ty), o \in Ordering : FetchOr(v, o)
    \/ \E v \in Dom(ty), o \in Ordering : FetchXor(v, o)
    \/ IntoInner

SpecOrd == InitOrd /\ [][NextOrd]_vars

\* --------------------------------------------------- threads on one cell
\* NThreads threads hold a shared reference to one wrapper.  Each makes one
\* call of the same method; a call is one step, since every method is one
\* call of one std atomic operation on self.0.
Threads == 1..NThreads

RaceTypes == {"bool", "u8", "ptr", "Tag"}

RaceDom(t) == IF t = "u8" THEN {Bits(n) : n \in 0..MaxRaceArg} ELSE Dom(t)

\* the methods that take &self
SharedMethods(t) ==
    {"load", "store", "swap", "compare_and_swap", "compare_exchange",
     "compare_exchange_weak"}
    \cup (IF Impl(t) \in AtomicLogicImpl
          THEN {"fetch_and", "fetch_nand", "fetch_or", "fetch_xor"} ELSE {})

\* the argument lists of a method
ArgsOf(t, name) ==
    CASE name = "load" -> {<<>>}
      [] name \in {"compare_and_swap", "compare_exchange", "compare_exchange_weak"}
            -> RaceDom(t) \X RaceDom(t)
      [] OTHER -> {<<v>> : v \in RaceDom(t)}

\* the outcomes of the wrapper's method name called with args on a cell
\* holding c
Call(t, c, name, args, order) ==
    CASE name = "load" -> load(t, c, order)
      [] name = "store" -> store(t, c, args[1], order)
      [] name = "swap" -> swap(t, c, args[1], order)
      [] name = "compare_and_swap" -> compare_and_swap(t, c, args[1], args[2], order)
      [] name = "compare_exchange" ->
            compare_exchange(t, c, args[1], args[2], order, order)
      [] name = "compare_exchange_weak" ->
            compare_exchange_weak(t, c, args[1], args[2], order, order)
      [] name = "fetch_and" -> fetch_and(t, c, args[1], order)
      [] name = "fetch_nand" -> fetch_nand(t, c, args[1], order)
      [] name = "fetch_or" -> fetch_or(t, c, args[1], order)
      [] name = "fetch_xor" -> fetch_xor(t, c, args[1], order)

RaceInit ==
    /\ ty \in RaceTypes
    /\ \E v \in RaceDom(ty) :
        /\ cell = new(ty, v)
        /\ abs = Abs(v)
        /\ last = [op |-> "new", args |-> <<v>>, ord |-> <<>>, pre |-> new(ty, v),
                   apre |-> Abs(v), ret |-> Unit, aret |-> Unit]
    /\ alive = TRUE
    /\ twice = FALSE
    /\ called = <<>>
    /\ \E name \in SharedMethods(ty) :
        thr \in [Threads -> {[pc |-> "ready", op |-> name, args |-> a, pre |-> cell,
                              rank |-> 0, ret |-> Unit] : a \in ArgsOf(ty, name)}]

\* thread t makes its call: pre is the cell's value it met, rank the number
\* of calls made before it
Exec(t) ==
    /\ thr[t].pc = "ready"
    /\ \E order \in CallOrders :
        \E o \in Call(ty, cell, thr[t].op, thr[t].args, order) :
            /\ cell' = o.cell
            /\ thr' = [thr EXCEPT ![t] = [pc |-> "done", op |-> thr[t].op,
                            args |-> thr[t].args, pre |-> cell,
                            rank |-> Cardinality({u \in Threads : thr[u].pc = "done"}),
                            ret |-> o.ret]]
    /\ UNCHANGED <<ty, alive, last, twice, called, abs>>

RaceNext == \E t \in Threads : Exec(t)

SpecRace == RaceInit /\ [][RaceNext]_vars

\* ------------------------------------------ one thread scheduled fairly
\* The threads on the two smallest types that have every method, with only
\* thread 1 guaranteed to be scheduled: the other threads may never take a
\* step.
ProgressTypes == {"bool", "Tag"}

ProgressInit == RaceInit /\ ty \in ProgressTypes

SpecProgress == ProgressInit /\ [][RaceNext]_vars /\ WF_vars(Exec(1))

\* ----------------------------------------------------------- properties
IntTypes == {"u8", "i8", "u16", "i16", "u32", "i32", "u64", "i64"}

\* the cell before the last operation encoded a Domain Value
PreDecodes == Decoded(ty, last.pre) # {}

\* the results a call of T::unpack on the native value n can give
Returns(tag, n) == {[tag |-> tag, v |-> u] : u \in unpack(ty, n)}

C1_Exact ==
    last.op = "compare_exchange" =>
        IF last.pre = pack(ty, last.args[1])
        THEN /\ last.ret = Ok(last.args[1])
             /\ cell = pack(ty, last.args[2])
        ELSE /\ last.ret \in Returns("Err", last.pre)
             /\ PreDecodes => pack(ty, last.ret.v) = last.pre

C1_IsCall(l) == l.op = "compare_exchange" /\ l.args = <<FALSE, TRUE>>

C1_Scenario ==
    ty = "bool" =>
        /\ last.op = "new" /\ last.args = <<FALSE>> /\ C1_IsCall(last')
            => last'.ret = Ok(FALSE)
        /\ C1_IsCall(last) /\ last.ret = Ok(FALSE) /\ last'.op = "load"
            => last'.ret = Val(TRUE)
        /\ C1_IsCall(last) /\ last.ret = Ok(FALSE) /\ C1_IsCall(last')
            => last'.ret = Err(TRUE)
        /\ last.op = "load" /\ last.ret = Val(TRUE) /\ C1_IsCall(last')
            => last'.ret = Err(TRUE)

\* C1: the strong compare_exchange never fails spuriously: when the cell
\* holds current it returns Ok(current) and the cell holds new afterwards,
\* otherwise it returns Err of the value the cell holds; on a bool wrapper
\* made with false, compare_exchange(false, true) returns Ok(false), a load
\* after it returns true and a second identical call returns Err(true).
C1_StrongNeverSpuriouslyFails == [][C1_Exact' /\ C1_Scenario]_vars

\* the second compare_exchange(false, true) of the scenario has failed
C1_Witness ==
    /\ ty = "bool"
    /\ C1_IsCall(last)
    /\ twice
    /\ last.pre = TRUE
    /\ last.ret = Err(TRUE)

\* C2: a compare_exchange_weak that returns Ok(p) found the cell equal to
\* current, p is that value, and the cell holds new afterwards.
C2_WeakNeverSpuriouslySucceeds ==
    last.op = "compare_exchange_weak" /\ last.ret.tag = "Ok" =>
        /\ last.pre = pack(ty, last.args[1])
        /\ last.ret.v = last.args[1]
        /\ cell = pack(ty, last.args[2])

\* a weak compare-exchange has succeeded and changed the cell
C2_Witness ==
    /\ last.op = "compare_exchange_weak"
    /\ last.ret.tag = "Ok"
    /\ cell # last.pre

\* C3: a failing compare_exchange or compare_exchange_weak, spurious or not,
\* leaves the cell as it was and returns Err of the value the cell held; a
\* load leaves the cell as it was.
C3_FailureAndLoadKeepCell ==
    /\ last.op \in {"compare_exchange", "compare_exchange_weak"} /\ last.ret.tag = "Err" =>
        /\ cell = last.pre
        /\ last.ret \in Returns("Err", last.pre)
        /\ PreDecodes => pack(ty, last.ret.v) = last.pre
    /\ last.op = "load" => cell = last.pre

\* a weak compare-exchange has failed although the cell held current
C3_Witness ==
    /\ last.op = "compare_exchange_weak"
    /\ last.ret.tag = "Err"
    /\ last.pre = pack(ty, last.args[1])
    /\ last.args[1] # last.args[2]

\* C4: compare_and_swap returns the value the cell held; the cell becomes
\* new iff that value equals current and otherwise stays as it was.
C4_CompareAndSwapIffEqual ==
    last.op = "compare_and_swap" =>
        /\ last.ret \in Returns("Val", last.pre)
        /\ PreDecodes => pack(ty, last.ret.v) = last.pre
        /\ cell = IF last.pre = pack(ty, last.args[1])
                  THEN pack(ty, last.args[2]) ELSE last.pre

\* a compare_and_swap has found the cell different from current
C4_Witness ==
    /\ last.op = "compare_and_swap"
    /\ last.pre # pack(ty, last.args[1])
    /\ last.args[1] # last.args[2]
    /\ last.pre # pack(ty, last.args[2])

\* the results a load of a cell holding the native value n can give
LoadOf(n) == {o.ret : o \in UNION {load(ty, n, order) : order \in CallOrders}}

C5_Prior ==
    last.op = "swap" =>
        /\ last.ret \in LoadOf(last.pre)
        /\ PreDecodes => pack(ty, last.ret.v) = last.pre
        /\ cell = pack(ty, last.args[1])

C5_LoadAfter ==
    last.op = "swap" /\ last'.op = "load" => last'.ret = Val(last.args[1])

\* C5: swap returns what a load just before it would have returned, and a
\* load right after it returns the value swapped in.
C5_SwapReturnsPrior == [][C5_Prior' /\ C5_LoadAfter]_vars

\* a swap has replaced the cell's value by a different one
C5_Witness ==
    /\ last.op = "swap"
    /\ last.pre # pack(ty, last.args[1])
    /\ cell = pack(ty, last.args[1])

C6_Stored == last.op = "store" => cell = pack(ty, last.args[1])

C6_LoadAfter ==
    last.op = "store" /\ last'.op = "load" => last'.ret = Val(last.args[1])

\* C6: a load right after store(w) returns w, whatever the cell held before.
C6_LoadAfterStore == [][C6_Stored' /\ C6_LoadAfter]_vars

\* a store has overwritten a different value
C6_Witness ==
    /\ last.op = "store"
    /\ last.pre # pack(ty, last.args[1])
    /\ cell = pack(ty, last.args[1])

FetchOps == {"fetch_and", "fetch_nand", "fetch_or", "fetch_xor"}

\* the truth table of each bitwise operation on one bit
BitOf(op, x, y) ==
    CASE op = "fetch_and"  -> x /\ y
      [] op = "fetch_nand" -> ~(x /\ y)
      [] op = "fetch_or"   -> x \/ y
      [] op = "fetch_xor"  -> x # y

\* the native value n is the combination by op of the native values c and m
Combines(op, n, c, m) ==
    IF Impl(ty) = "AtomicBool"
    THEN n = BitOf(op, c, m)
    ELSE /\ n \subseteq AllBits(Impl(ty))
         /\ \A i \in AllBits(Impl(ty)) : (i \in n) = BitOf(op, i \in c, i \in m)

C7_Fetch ==
    last.op \in FetchOps =>
        /\ last.ret \in Returns("Val", last.pre)
        /\ PreDecodes => pack(ty, last.ret.v) = last.pre
        /\ Combines(last.op, cell, last.pre, pack(ty, last.args[1]))

C7_Scenario ==
    ty \in IntTypes =>
        /\ last.op = "new" /\ last.args = <<Bits(5)>>
           /\ last'.op = "fetch_or" /\ last'.args = <<Bits(3)>>
            => last'.ret = Val(Bits(5)) /\ cell' = Bits(7)
        /\ last.op = "fetch_or" /\ last.args = <<Bits(3)>> /\ last.pre = Bits(5)
           /\ last'.op = "load"
            => last'.ret = Val(Bits(7))

\* C7: fetch_and, fetch_nand, fetch_or and fetch_xor return the value the
\* cell held and leave in the cell its AND, NAND, OR, XOR with the operand,
\* bit by bit over the width of the type (logically for bool); a wrapper
\* made with 5 returns 5 from fetch_or(3) and a load after it returns 7.
C7_FetchCombines == [][C7_Fetch' /\ C7_Scenario]_vars

\* fetch_or(3) has been applied to an integer wrapper holding 5
C7_Witness ==
    /\ ty \in IntTypes
    /\ last.op = "fetch_or"
    /\ last.pre = Bits(5)
    /\ last.args = <<Bits(3)>>
    /\ cell = Bits(7)

\* C8: two fetch_xor with the same mask, one right after the other, leave
\* the cell as it was before the first; the first returns that value and
\* the second the value the first installed.
C8_XorInvolution ==
    [][last.op = "fetch_xor" /\ last'.op = "fetch_xor" /\ last'.args = last.args =>
        /\ cell' = last.pre
        /\ last.ret \in Returns("Val", last.pre)
        /\ last'.ret \in Returns("Val", cell)
        /\ Combines("fetch_xor", cell, last.pre, pack(ty, last.args[1]))
        /\ Decoded(ty, last.pre) # {} => pack(ty, last.ret.v) = last.pre
        /\ Decoded(ty, cell) # {} => pack(ty, last'.ret.v) = cell]_vars

\* the second of two fetch_xor with one non-zero mask has restored the cell
C8_Witness ==
    /\ last.op = "fetch_xor"
    /\ twice
    /\ cell # last.pre

\* pack is injective on the type's Domain Values and unpack inverts it
Faithful ==
    \A v \in Dom(ty) :
        /\ unpack(ty, pack(ty, v)) = {v}
        /\ \A w \in Dom(ty) : pack(ty, v) = pack(ty, w) => v = w

\* C9: for a type whose pack is injective and inverted by unpack, the
\* native cell always holds the encoding of the abstract cell's value, and
\* every operation returns what the same operation on the abstract cell
\* returns, the Ok and the Err of a compare-exchange included.
C9_WrapperTranscodes ==
    Faithful =>
        /\ abs.ok => cell = pack(ty, abs.v)
        /\ last.apre.ok => last.ret = last.aret

\* a compare_exchange on the non-identity type Tag has failed
C9_Witness ==
    /\ ty = "Tag"
    /\ last.op = "compare_exchange"
    /\ last.apre.ok
    /\ last.ret.tag = "Err"
    /\ last.ret.v = last.args[2]
    /\ last.ret = last.aret
    /\ cell = pack(ty, last.args[2])

\* the wrapper has a method of that name, and it can be called on the live
\* wrapper
C10_Provides(name) ==
    /\ name \in AtomicMethods
    /\ alive /\ name # "new" => ENABLED Method(name)

\* C10 as stated: every method of AtomicImpl, get_mut included, has an
\* equivalent on the wrapper.
C10_EveryNativeMethod == \A name \in AtomicImplMethods : C10_Provides(name)

\* C10, amended: every method of AtomicImpl other than get_mut has an
\* equivalent on the wrapper, and the wrapper has no get_mut.
C10_EveryNativeMethodButGetMut ==
    /\ \A name \in AtomicImplMethods \ {"get_mut"} : C10_Provides(name)
    /\ "get_mut" \notin AtomicMethods
    /\ last.op \in AtomicMethods \cup FetchOps

\* the wrapper's equivalent of the last native method has been called
C10_Witness ==
    /\ alive
    /\ last.op = "compare_exchange_weak"
    /\ \A name \in AtomicMethods \ {"new"} : ENABLED Method(name)


\* the bitwise methods that can be called on the wrapper
Exposed == {name \in FetchOps : ENABLED FetchMethod(name)}

C11_Gating ==
    alive =>
        /\ ty = "ptr" => Exposed = {}
        /\ ty \in {"bool"} \cup IntTypes => Exposed = FetchOps

\* C11: a live wrapper of a pointer has none of fetch_and, fetch_nand,
\* fetch_or, fetch_xor, a live wrapper of bool or of an integer type has all
\* four, and the type that decides this never changes.
C11_WidthGating == []C11_Gating /\ [][ty' = ty]_vars

\* operations have been applied to a pointer wrapper, which still has no
\* bitwise method
C11_Witness ==
    /\ ty = "ptr"
    /\ alive
    /\ last.op = "compare_exchange"
    /\ last.ret.tag = "Ok"
    /\ twice
    /\ Exposed = {}


\* C12: the orderings the native operation receives are the ones the caller
\* gave, in the same positions: for compare_exchange and
\* compare_exchange_weak the success ordering first and the failure ordering
\* second.
C12_OrderingPassedThrough ==
    /\ last.ord = called
    /\ last.op \in {"load", "store", "swap", "compare_and_swap"} \cup FetchOps
        => Len(last.ord) = 1
    /\ last.op \in {"compare_exchange", "compare_exchange_weak"} => Len(last.ord) = 2

\* a weak compare-exchange called with two different orderings has succeeded
C12_Witness ==
    /\ last.op = "compare_exchange_weak"
    /\ called = <<"AcqRel", "Acquire">>
    /\ last.ord = <<"AcqRel", "Acquire">>
    /\ last.ret.tag = "Ok"


\* the last operation was a compare-and-set that installed its new value
CasInstalled ==
    \/ last.op = "compare_and_swap" /\ last.pre = pack(ty, last.args[1])
    \/ last.op \in {"compare_exchange", "compare_exchange_weak"} /\ last.ret.tag = "Ok"

\* C13: into_inner leaves the cell alone and returns the decoding of the
\* value the cell holds: the argument of the new, store or swap or the new
\* value of the successful compare-and-set just before it, and always the
\* value of the abstract cell, which is the one the last changing operation
\* installed, or the initial one.
C13_IntoInnerRecoversFinal ==
    [][last'.op = "into_inner" =>
        /\ cell' = cell
        /\ last'.ret \in Returns("Val", cell)
        /\ Decoded(ty, cell) # {} => pack(ty, last'.ret.v) = cell
        /\ last.op \in {"new", "store", "swap"} => last'.ret = Val(last.args[1])
        /\ CasInstalled => last'.ret = Val(last.args[2])
        /\ abs.ok => last'.ret = Val(abs.v)]_vars

\* into_inner has returned the Tag value B
C13_Witness ==
    /\ ty = "Tag"
    /\ ~alive
    /\ last.op = "into_inner"
    /\ last.pre = Bits(2)
    /\ last.ret = Val("B")


\* the native value n is the encoding of a Domain Value of the type
Encodes(n) ==
    CASE ty = "Tag"  -> \E v \in Dom(ty) : pack(ty, v) = n
      [] ty = "bool" -> n \in BOOLEAN
      [] ty = "ptr"  -> n \in Nat
      [] OTHER       -> n \subseteq AllBits(Impl(ty))

\* C15: the cell always holds the encoding of some Domain Value, so that
\* every native value handed to unpack (the value the cell held before a
\* load, swap, compare-and-set or fetch_*, the final value for into_inner)
\* is one pack could have produced.
C15_DecodeOnlyOnImage ==
    /\ Encodes(cell)
    /\ last.op \notin {"new", "store"} => Encodes(last.pre)


\* integers are read in limbs of at most 16 bits, so that each limb is a
\* number TLC can compute with
LimbBits(impl) == IF Width(impl) < 16 THEN Width(impl) ELSE 16
Limbs(impl) == 0..((Width(impl) \div LimbBits(impl)) - 1)
LimbMax(impl) == (2 ^ LimbBits(impl)) - 1

\* the number that limb k of the bit pattern n denotes
LimbVal(impl, n, k) ==
    LET b == LimbBits(impl)
        f[i \in 0..b] ==
            IF i = 0 THEN 0
            ELSE f[i - 1] + (IF (b * k + i - 1) \in n THEN 2 ^ (i - 1) ELSE 0)
    IN f[b]

\* the number a bit pattern of at most 16 bits denotes, unsigned and in
\* two's complement
UVal(impl, n) == LimbVal(impl, n, 0)
SVal(impl, n) ==
    UVal(impl, n) - (IF (Width(impl) - 1) \in n THEN 2 ^ Width(impl) ELSE 0)

C16_InWidth ==
    last.op \in FetchOps /\ Impl(ty) # "AtomicBool" =>
        LET impl == Impl(ty)
            w == Width(impl)
            both == {i \in 0..(w - 1) : i \in last.pre /\ i \in pack(ty, last.args[1])}
        IN /\ last.ret.tag = "Val"
           /\ \A i \in cell : 0 <= i /\ i < w
           /\ \A k \in Limbs(impl) : LimbVal(impl, cell, k) \in 0..LimbMax(impl)
           /\ last.op = "fetch_nand" =>
                /\ \A k \in Limbs(impl) :
                    LimbVal(impl, cell, k) = LimbMax(impl) - LimbVal(impl, both, k)
                /\ w <= 16 /\ ~Signed(impl) =>
                    UVal(impl, cell) = ((2 ^ w) - 1) - UVal(impl, both)
                /\ w <= 16 /\ Signed(impl) =>
                    SVal(impl, cell) = (-SVal(impl, both)) - 1
           /\ w <= 16 /\ ~Signed(impl) => UVal(impl, cell) \in 0..((2 ^ w) - 1)
           /\ w <= 16 /\ Signed(impl) =>
                SVal(impl, cell) \in (-(2 ^ (w - 1)))..((2 ^ (w - 1)) - 1)

C16_Bool ==
    last.op \in FetchOps /\ Impl(ty) = "AtomicBool" =>
        /\ last.ret.tag = "Val"
        /\ cell \in BOOLEAN
        /\ last.op = "fetch_nand" => cell = ~(last.pre /\ last.args[1])

\* C16: what a fetch_and, fetch_nand, fetch_or or fetch_xor installs is a
\* value of the same width and signedness: all its one bits lie inside the
\* width; fetch_nand installs (2^n - 1) - (c AND m) on an unsigned type and
\* -(c AND m) - 1 on a signed one (limb by limb for 32 and 64 bits), and
\* NOT (c AND m) on bool; no call panics.
C16_FetchStaysInWidth == C16_InWidth /\ C16_Bool

\* fetch_nand has set the sign bit of an i64
C16_Witness ==
    /\ ty = "i64"
    /\ last.op = "fetch_nand"
    /\ 63 \in cell
    /\ 63 \notin last.pre
    /\ 0 \notin cell


Done(t) == thr[t].pc = "done"
AllDone == \A t \in Threads : Done(t)

\* the value the wrapper was made with
V0 == last.args[1]

\* every thread issues compare_exchange(c, n) with c the initial value and
\* its own n different from c
C17_Case ==
    \A t \in Threads :
        /\ thr[t].op = "compare_exchange"
        /\ thr[t].args[1] = V0
        /\ thr[t].args[2] # V0

Winners == {t \in Threads : Done(t) /\ thr[t].ret.tag = "Ok"}

\* C17: of the threads racing with a strong compare_exchange(c, n_i) on a
\* cell holding c, the first to run and no other gets Ok(c); every other
\* gets Err of the winner's new value, which the cell holds from then on.
C17_ExactlyOneWinner ==
    C17_Case =>
        /\ (\E t \in Threads : Done(t)) => Cardinality(Winners) = 1
        /\ \A w \in Winners :
            /\ thr[w].ret = Ok(V0)
            /\ thr[w].rank = 0
            /\ cell = pack(ty, thr[w].args[2])
            /\ \A t \in Threads \ {w} : Done(t) => thr[t].ret = Err(thr[w].args[2])

\* all threads have raced for the cell and the last of them has won
C17_Witness ==
    /\ C17_Case
    /\ AllDone
    /\ NThreads >= 2
    /\ Winners = {NThreads}

\* every thread swaps in a value of its own, different from the others' and
\* from the initial one
C18_Case ==
    \A t \in Threads :
        /\ thr[t].op = "swap"
        /\ thr[t].args[1] # V0
        /\ \A u \in Threads \ {t} : thr[u].args[1] # thr[t].args[1]

\* C18: when all swaps are done, the values returned and the value left in
\* the cell are the initial value and the values swapped in, each once, and
\* no thread got its own value back.
C18_SwapsLoseNothing ==
    C18_Case /\ AllDone =>
        /\ \A t \in Threads : thr[t].ret.tag = "Val" /\ thr[t].ret.v # thr[t].args[1]
        /\ \A t \in Threads : \A u \in Threads \ {t} : thr[t].ret.v # thr[u].ret.v
        /\ \E f \in {V0} \cup {thr[t].args[1] : t \in Threads} :
            /\ cell = pack(ty, f)
            /\ \A t \in Threads : thr[t].ret.v # f
            /\ {thr[t].ret.v : t \in Threads} \cup {f}
                = {V0} \cup {thr[t].args[1] : t \in Threads}

\* all swaps are done and the first thread was not the first to swap
C18_Witness ==
    /\ C18_Case
    /\ AllDone
    /\ thr[1].rank > 0
    /\ thr[1].ret.v # V0

FoldOps == {"fetch_or", "fetch_and", "fetch_xor"}

\* one bit of the fold of the initial bit x with the mask bits of the
\* threads in S, where M is the set of the threads in S whose mask has the bit
FoldBit(op, x, S, M) ==
    CASE op = "fetch_or"  -> x \/ M # {}
      [] op = "fetch_and" -> x /\ M = S
      [] op = "fetch_xor" -> x # (Cardinality(M) % 2 = 1)

\* the native value: the initial one combined with the masks of the threads
\* in S
FoldOf(op, S) ==
    IF Impl(ty) = "AtomicBool"
    THEN FoldBit(op, last.pre, S, {t \in S : pack(ty, thr[t].args[1])})
    ELSE {i \in AllBits(Impl(ty)) :
            FoldBit(op, i \in last.pre, S, {t \in S : i \in pack(ty, thr[t].args[1])})}

\* C19: with every thread doing fetch_or (or every thread fetch_and, or
\* fetch_xor), the cell always holds the initial value combined with the
\* masks of the calls made so far, whatever their order, so the final value
\* is the fold over all masks; each call returns the value combined from the
\* calls made before it.
C19_NoLostUpdate ==
    (\A t \in Threads : thr[t].op \in FoldOps) =>
        /\ cell = FoldOf(thr[1].op, {t \in Threads : Done(t)})
        /\ \A t \in Threads : Done(t) =>
            /\ thr[t].pre = FoldOf(thr[1].op,
                                   {u \in Threads : Done(u) /\ thr[u].rank < thr[t].rank})
            /\ thr[t].ret \in Returns("Val", thr[t].pre)
            /\ Decoded(ty, thr[t].pre) # {} => pack(ty, thr[t].ret.v) = thr[t].pre

\* all fetch_xor calls on a u8 are done, the first thread not first, with
\* masks that are not zero and differ
C19_Witness ==
    /\ ty = "u8"
    /\ AllDone
    /\ \A t \in Threads : thr[t].op = "fetch_xor" /\ thr[t].args[1] # {}
    /\ thr[1].args[1] # thr[NThreads].args[1]
    /\ thr[1].rank > 0
    /\ cell # last.pre


C14_Enabled == \A t \in Threads : thr[t].pc = "ready" => ENABLED Exec(t)

C14_OneStep ==
    \A t \in Threads :
        thr[t].pc = "ready" /\ thr'[t] # thr[t] =>
            /\ thr'[t].pc = "done"
            /\ thr'[t].ret.tag \in {"Val", "Ok", "Err", "Unit"}
            /\ \A u \in Threads \ {t} : thr'[u] = thr[u]

\* C14: a thread's call is enabled in every state in which it has not been
\* made, whatever the other threads did or left undone; it is made and
\* returns in one step, in which no other thread moves; and with thread 1
\* alone scheduled fairly, the call of thread 1 returns.
C14_NonBlocking ==
    /\ []C14_Enabled
    /\ [][C14_OneStep]_vars
    /\ (thr[1].pc = "ready") ~> (thr[1].pc = "done")

\* the call of thread 1 has returned while no other thread has moved
C14_Witness ==
    /\ thr[1].pc = "done"
    /\ thr[1].op = "compare_exchange_weak"
    /\ thr[1].ret.tag = "Err"
    /\ \A t \in Threads \ {1} : thr[t].pc = "ready"

====
